---- MODULE Spec2Model ----
(***************************************************************************)
(* Model of merkle-tree/src/merkle_tree.rs: the Merkle tree builder        *)
(* (MerkleTree::new, get_root, find_path), the root-only calculator        *)
(* (append_nodes, commit_finish, merkle_root), the capacity estimate       *)
(* (calculate_vec_capacity) and proofs (ProofEntry::new, Proof::verify).   *)
(*                                                                         *)
(* The hash primitive hashv is modelled as a collision-free constructor:   *)
(* the digest of a byte string is the term <<"H", byte string>>.  A record *)
(* is a sequence of bytes (naturals); the 32 bytes of a digest fed back    *)
(* into hashv are one opaque chunk, the digest term itself.                *)
(***************************************************************************)
EXTENDS Integers, Sequences, FiniteSets, TLC

VARIABLES items, mt, proof, ret, pe_args, cap_n, hash_args, build, fold

vars == <<items, mt, proof, ret, pe_args, cap_n, hash_args, build, fold>>

(************************* bounds of the model *****************************)
\* longest record list handed to MerkleTree::new / merkle_root
MaxLeaves == 5
\* records are the empty byte string and the one-byte strings <<0>>..<<MaxByte>>
MaxByte == 0

(************************* Option / outcome values *************************)
None == <<"None">>
Some(v) == <<"Some", v>>
Panic == <<"Panic">>
IsSome(o) == o[1] = "Some"
Unwrap(o) == o[2]
unwrap_or(o, d) == IF IsSome(o) THEN o[2] ELSE d

(************************* hashing ****************************************)
LEAF_PREFIX == <<0>>
\* the same byte as the leaf prefix
INTERMEDIATE_PREFIX_same == <<0>>
INTERMEDIATE_PREFIX == <<1>>

RECURSIVE Concat(_)
Concat(parts) == IF parts = <<>> THEN <<>> ELSE Head(parts) \o Concat(Tail(parts))

\* solana_program::hash::hashv: the digest of the concatenation of the slices
hashv(parts) == <<"H", Concat(parts)>>
\* Hash::as_ref(): the 32 bytes of a digest, one opaque chunk
AsRef(h) == <<h>>
\* Hash::default(): the all-zero digest, the image of no modelled input
HashDefault == <<"Z">>

hash_leaf(d) == hashv(<<LEAF_PREFIX, d>>)
hash_intermediate(l, r) == hashv(<<INTERMEDIATE_PREFIX, AsRef(l), AsRef(r)>>)

(************************* inputs *****************************************)
Records == {<<>>} \cup {<<b>> : b \in 0..MaxByte}
RECURSIVE ListsOfLen(_)
ListsOfLen(n) == IF n = 0 THEN {<<>>}
                 ELSE {Append(l, r) : l \in ListsOfLen(n - 1), r \in Records}
ItemLists == UNION {ListsOfLen(n) : n \in 0..MaxLeaves}

(************************* MerkleTree *************************************)
\* 0-based indexing of a Vec / slice
At(v, idx) == v[idx + 1]

\* stops one level early: a level of two nodes gets no parent
next_level_len_early(level_len) == IF level_len <= 2 THEN 0 ELSE (level_len + 1) \div 2

next_level_len(level_len) == IF level_len = 1 THEN 0 ELSE (level_len + 1) \div 2

\* the closure iteration_count of test_nodes_capacity_compute: the true
\* number of nodes, the sum of the level sizes
RECURSIVE iteration_count(_)
iteration_count(leaf_count) ==
    IF leaf_count > 0
    THEN leaf_count + iteration_count(next_level_len(leaf_count))
    ELSE 0

RECURSIVE FloorLog2(_)
FloorLog2(n) == IF n <= 1 THEN 0 ELSE 1 + FloorLog2(n \div 2)

\* fast_math::log2_raw(n as f32) as usize: for the integers of the model
\* (exactly representable in f32) the truncated approximation is floor(log2 n)
log2_raw(n) == FloorLog2(n)

calculate_vec_capacity_balanced(leaf_count) ==
    IF leaf_count > 0 THEN 2 * leaf_count - 1 ELSE 0

calculate_vec_capacity(leaf_count) ==
    IF leaf_count > 0 THEN log2_raw(leaf_count) + 2 * leaf_count + 1 ELSE 0

\* hashes each pair with the right sibling first
LevelNodes_swapped(nodes, level_len, prev_level_len, prev_level_start) ==
    [j \in 1..level_len |->
        LET i == j - 1
            prev_level_idx == 2 * i
            lsib == At(nodes, prev_level_start + prev_level_idx)
            rsib == IF prev_level_idx + 1 < prev_level_len
                    THEN At(nodes, prev_level_start + prev_level_idx + 1)
                    ELSE At(nodes, prev_level_start + prev_level_idx)
        IN hash_intermediate(rsib, lsib)]

\* the for loop at lines 116-128: the level_len parents of the previous level
LevelNodes(nodes, level_len, prev_level_len, prev_level_start) ==
    [j \in 1..level_len |->
        LET i == j - 1
            prev_level_idx == 2 * i
            lsib == At(nodes, prev_level_start + prev_level_idx)
            rsib == IF prev_level_idx + 1 < prev_level_len
                    THEN At(nodes, prev_level_start + prev_level_idx + 1)
                    ELSE At(nodes, prev_level_start + prev_level_idx)
        IN hash_intermediate(lsib, rsib)]

\* loops while level_len > 1: the level of length 1 is never produced
RECURSIVE BuildLevels_short(_, _, _, _, _)
BuildLevels_short(nodes, level_len, level_start, prev_level_len, prev_level_start) ==
    IF level_len > 1
    THEN BuildLevels_short(nodes \o LevelNodes(nodes, level_len, prev_level_len, prev_level_start),
                           next_level_len(level_len), level_start + level_len,
                           level_len, level_start)
    ELSE nodes

\* the while loop at lines 115-133
RECURSIVE BuildLevels(_, _, _, _, _)
BuildLevels(nodes, level_len, level_start, prev_level_len, prev_level_start) ==
    IF level_len > 0
    THEN BuildLevels(nodes \o LevelNodes(nodes, level_len, prev_level_len, prev_level_start),
                     next_level_len(level_len), level_start + level_len,
                     level_len, level_start)
    ELSE nodes

\* enters the level loop with ceil(n/2) even for a single leaf
new_padded(its) ==
    LET leaves == [j \in 1..Len(its) |-> hash_leaf(its[j])]
    IN [leaf_count |-> Len(its),
        cap |-> calculate_vec_capacity(Len(its)),
        nodes |-> BuildLevels(leaves, (Len(its) + 1) \div 2, Len(its), Len(its), 0)]

new(its) ==
    LET leaves == [j \in 1..Len(its) |-> hash_leaf(its[j])]
    IN [leaf_count |-> Len(its),
        cap |-> calculate_vec_capacity(Len(its)),
        nodes |-> BuildLevels(leaves, next_level_len(Len(its)), Len(its), Len(its), 0)]

get_root_first(t) == IF t.nodes = <<>> THEN None ELSE Some(t.nodes[1])

get_root(t) == IF t.nodes = <<>> THEN None ELSE Some(t.nodes[Len(t.nodes)])

(************************* ProofEntry / Proof ******************************)
\* a ^ b on booleans
Xor(a, b) == a # b

ProofEntry_new_lax(target, left_sibling, right_sibling) ==
    IF ~IsSome(left_sibling) \/ ~IsSome(right_sibling)
    THEN Some(<<target, left_sibling, right_sibling>>)
    ELSE Panic

\* asserts that the left sibling is the one present
ProofEntry_new_leftonly(target, left_sibling, right_sibling) ==
    IF IsSome(left_sibling) /\ ~IsSome(right_sibling)
    THEN Some(<<target, left_sibling, right_sibling>>)
    ELSE Panic

\* Some(entry), or Panic when the assertion fails
ProofEntry_new(target, left_sibling, right_sibling) ==
    IF Xor(~IsSome(left_sibling), ~IsSome(right_sibling))
    THEN Some(<<target, left_sibling, right_sibling>>)
    ELSE Panic

\* the try_fold of Proof::verify from entry k on: Some(hash) or None
RECURSIVE VerifyFold(_, _, _)
VerifyFold(entries, k, candidate) ==
    IF k > Len(entries) THEN Some(candidate)
    ELSE LET pe == entries[k]
             lsib == unwrap_or(pe[2], candidate)
             rsib == unwrap_or(pe[3], candidate)
             hash == hash_intermediate(lsib, rsib)
         IN IF hash = pe[1] THEN VerifyFold(entries, k + 1, hash) ELSE None

\* keeps folding the unchanged candidate instead of the matched hash
RECURSIVE VerifyFoldStale(_, _, _)
VerifyFoldStale(entries, k, candidate) ==
    IF k > Len(entries) THEN Some(candidate)
    ELSE LET pe == entries[k]
             lsib == unwrap_or(pe[2], candidate)
             rsib == unwrap_or(pe[3], candidate)
             hash == hash_intermediate(lsib, rsib)
         IN IF hash = pe[1] THEN VerifyFoldStale(entries, k + 1, candidate) ELSE None

verify_stale(entries, candidate) == IsSome(VerifyFoldStale(entries, 1, candidate))

\* goes on with the recorded target when the recomputed hash differs
RECURSIVE VerifyFoldLenient(_, _, _)
VerifyFoldLenient(entries, k, candidate) ==
    IF k > Len(entries) THEN Some(candidate)
    ELSE VerifyFoldLenient(entries, k + 1, entries[k][1])

verify_lenient(entries, candidate) == IsSome(VerifyFoldLenient(entries, 1, candidate))

\* hashes the pair in the wrong order
RECURSIVE VerifyFoldSwapped(_, _, _)
VerifyFoldSwapped(entries, k, candidate) ==
    IF k > Len(entries) THEN Some(candidate)
    ELSE LET pe == entries[k]
             lsib == unwrap_or(pe[2], candidate)
             rsib == unwrap_or(pe[3], candidate)
             hash == hash_intermediate(rsib, lsib)
         IN IF hash = pe[1] THEN VerifyFoldSwapped(entries, k + 1, hash) ELSE None

verify_swapped(entries, candidate) == IsSome(VerifyFoldSwapped(entries, 1, candidate))

verify(entries, candidate) == IsSome(VerifyFold(entries, 1, candidate))

\* index >= self.leaf_count
OutOfRange_clamped(index, leaf_count) == index > leaf_count

OutOfRange(index, leaf_count) == index >= leaf_count

\* records the sibling on the wrong side: right for an odd node_index
RECURSIVE FindPathLoop_flipped(_, _, _, _, _, _, _)
FindPathLoop_flipped(t, level_len, level_start, path, node_index, lsib, rsib) ==
    IF level_len > 0
    THEN IF level_start + level_len > Len(t.nodes) THEN Panic
         ELSE IF node_index >= level_len THEN Panic
         ELSE LET level == SubSeq(t.nodes, level_start + 1, level_start + level_len)
                  target == At(level, node_index)
                  entry == ProofEntry_new(target, lsib, rsib)
                  pushes == IsSome(lsib) \/ IsSome(rsib)
                  path2 == IF pushes /\ IsSome(entry)
                           THEN Append(path, Unwrap(entry)) ELSE path
                  rsib2 == IF node_index % 2 = 0 THEN None
                           ELSE Some(At(level, node_index - 1))
                  lsib2 == IF node_index % 2 = 0
                           THEN IF node_index + 1 < Len(level)
                                THEN Some(At(level, node_index + 1))
                                ELSE Some(At(level, node_index))
                           ELSE None
              IN IF pushes /\ entry = Panic THEN Panic
                 ELSE FindPathLoop_flipped(t, next_level_len(level_len), level_start + level_len,
                                           path2, node_index \div 2, lsib2, rsib2)
    ELSE Some(path)

\* the while loop of find_path, lines 243-265; Panic on an out-of-bounds
\* slice or index and on a failed ProofEntry::new assertion
RECURSIVE FindPathLoop(_, _, _, _, _, _, _)
FindPathLoop(t, level_len, level_start, path, node_index, lsib, rsib) ==
    IF level_len > 0
    THEN IF level_start + level_len > Len(t.nodes) THEN Panic
         ELSE IF node_index >= level_len THEN Panic
         ELSE LET level == SubSeq(t.nodes, level_start + 1, level_start + level_len)
                  target == At(level, node_index)
                  entry == ProofEntry_new(target, lsib, rsib)
                  pushes == IsSome(lsib) \/ IsSome(rsib)
                  path2 == IF pushes /\ IsSome(entry)
                           THEN Append(path, Unwrap(entry)) ELSE path
                  lsib2 == IF node_index % 2 = 0 THEN None
                           ELSE Some(At(level, node_index - 1))
                  rsib2 == IF node_index % 2 = 0
                           THEN IF node_index + 1 < Len(level)
                                THEN Some(At(level, node_index + 1))
                                ELSE Some(At(level, node_index))
                           ELSE None
              IN IF pushes /\ entry = Panic THEN Panic
                 ELSE FindPathLoop(t, next_level_len(level_len), level_start + level_len,
                                   path2, node_index \div 2, lsib2, rsib2)
    ELSE Some(path)

\* stops below the root level: the last entry is missing
find_path_short(t, index) ==
    IF OutOfRange(index, t.leaf_count) THEN None
    ELSE LET r == FindPathLoop(t, t.leaf_count, 0, <<>>, index, None, None)
         IN IF IsSome(r) /\ Len(Unwrap(r)) > 0
            THEN Some(SubSeq(Unwrap(r), 1, Len(Unwrap(r)) - 1))
            ELSE r

find_path(t, index) ==
    IF OutOfRange(index, t.leaf_count) THEN None
    ELSE FindPathLoop(t, t.leaf_count, 0, <<>>, index, None, None)

(************************* root-only calculator ***************************)
\* the auxiliary buffer of merkle_root: Vec::with_capacity(63) + set_len(63),
\* 63 slots that hold no written value yet
NODES_LEN == 63
Uninit == <<"uninit">>
UninitNodes == [layer \in 0..(NODES_LEN - 1) |-> Uninit]

\* what a read of nodes[layer] yields: the digest written there, or, for a
\* slot never written, whatever the memory holds (garbage)
ReadSlot(nodes, layer, garbage) ==
    IF nodes[layer] = Uninit THEN garbage ELSE nodes[layer]

\* the while loop of append_nodes, lines 147-154
RECURSIVE CarryLoop(_, _, _, _, _, _)
CarryLoop(nodes, leaf, layer, cursor, ub, garbage) ==
    IF cursor % 2 = 0
    THEN LET arg1 == leaf
             arg2 == ReadSlot(nodes, layer, garbage)
         IN CarryLoop(nodes, hash_intermediate(arg1, arg2), layer + 1, cursor \div 2,
                      ub \/ nodes[layer] = Uninit, garbage)
    ELSE [leaf |-> leaf, layer |-> layer, ub |-> ub]

\* buf = [nodes, ub]: the buffer and whether an unwritten slot was read
RECURSIVE append_nodes(_, _, _, _)
append_nodes(buf, leaf_count, leaves, garbage) ==
    IF leaves = <<>>
    THEN [nodes |-> buf.nodes, ub |-> buf.ub, leaf_count |-> leaf_count]
    ELSE LET c == CarryLoop(buf.nodes, Head(leaves), 0, leaf_count + 1, buf.ub, garbage)
         IN append_nodes([nodes |-> [buf.nodes EXCEPT ![c.layer] = c.leaf], ub |-> c.ub],
                         leaf_count + 1, Tail(leaves), garbage)

\* takes the logarithm of leaf_count instead of leaf_count - 1
private_depth_off(leaf_count) ==
    IF leaf_count <= 1 THEN leaf_count ELSE FloorLog2(leaf_count) + 2

\* 63 - (leaf_count - 1).leading_zeros() is floor(log2(leaf_count - 1))
private_depth(leaf_count) ==
    IF leaf_count <= 1 THEN leaf_count ELSE FloorLog2(leaf_count - 1) + 2

RECURSIVE Pow2(_)
Pow2(k) == IF k = 0 THEN 1 ELSE 2 * Pow2(k - 1)

is_power_of_two(n) == n > 0 /\ Pow2(FloorLog2(n)) = n

RECURSIVE trailing_zeros(_)
trailing_zeros(n) == IF n % 2 = 1 THEN 0 ELSE 1 + trailing_zeros(n \div 2)

\* the while loop of commit_finish, lines 178-190
RECURSIVE FinishLoop(_, _, _, _, _, _)
FinishLoop(nodes, tmp, layer, layer_count, ub, garbage) ==
    IF layer_count > 1
    THEN LET tmp2 == IF layer_count % 2 # 0
                     THEN hash_intermediate(tmp, tmp)
                     ELSE hash_intermediate(tmp, ReadSlot(nodes, layer, garbage))
             ub2 == ub \/ (layer_count % 2 = 0 /\ nodes[layer] = Uninit)
         IN FinishLoop(nodes, tmp2, layer + 1, (layer_count + 1) \div 2, ub2, garbage)
    ELSE [tmp |-> tmp, ub |-> ub]

\* the returned digest, and whether an unwritten slot was read on the way
commit_finish(buf, leaf_count, garbage) ==
    LET root_idx == private_depth(leaf_count) - 1
    IN IF ~is_power_of_two(leaf_count)
       THEN LET layer == trailing_zeros(leaf_count)
                layer_count == leaf_count \div Pow2(layer)
                f == FinishLoop(buf.nodes, ReadSlot(buf.nodes, layer, garbage), layer,
                                layer_count, buf.ub \/ buf.nodes[layer] = Uninit, garbage)
            IN [res |-> f.tmp, ub |-> f.ub]
       ELSE [res |-> ReadSlot(buf.nodes, root_idx, garbage),
             ub |-> buf.ub \/ buf.nodes[root_idx] = Uninit]

\* lines 206-216: the digest the calculator folds for a non-empty list
fast_root(its, garbage) ==
    LET hashes == [j \in 1..Len(its) |-> hash_leaf(its[j])]
        a == append_nodes([nodes |-> UninitNodes, ub |-> FALSE], 0, hashes, garbage)
    IN commit_finish(a, a.leaf_count, garbage)

merkle_root_unchecked(its, garbage) ==
    IF its = <<>> THEN None ELSE Some(fast_root(its, garbage).res)

\* None, Some(digest), or Panic("Bad hash")
merkle_root(its, garbage) ==
    IF its = <<>> THEN None
    ELSE LET res == fast_root(its, garbage).res
             tree == new(its)
             res2 == Unwrap(get_root(tree))
         IN IF res # res2 THEN Panic ELSE Some(res)

(************************* state machine **********************************)
\* digests a caller may hold without having built the tree
LeafDigests == {hash_leaf(r) : r \in Records}
DigestPool == LeafDigests \cup {HashDefault}
\* digests handed to ProofEntry::new: leaves, parents of two leaves, default
EntryDigests == DigestPool \cup {hash_intermediate(a, b) : a, b \in LeafDigests}
OptDigests == {None} \cup {Some(d) : d \in EntryDigests}
\* contents of never-written memory
GarbageDigests == {HashDefault, hash_leaf(<<>>)}

NoCall == [op |-> "init", arg |-> <<>>, val |-> None]

\* the parts of the state that only the stand-alone specifications use
Idle == [pc |-> "idle"]

\* a caller holds a finished record list; no tree, no proof yet
Init ==
    /\ items \in ItemLists
    /\ mt = None
    /\ proof = None
    /\ ret = NoCall
    /\ pe_args = <<>>
    /\ cap_n = 0
    /\ hash_args = <<>>
    /\ build = Idle
    /\ fold = Idle

\* MerkleTree::new(items)
New ==
    /\ mt = None
    /\ mt' = Some(new(items))
    /\ ret' = [op |-> "new", arg |-> <<>>, val |-> None]
    /\ UNCHANGED <<items, proof, pe_args, cap_n, hash_args, build, fold>>

\* tree.get_root()
GetRoot ==
    /\ IsSome(mt)
    /\ ret' = [op |-> "get_root", arg |-> <<>>, val |-> get_root(Unwrap(mt))]
    /\ UNCHANGED <<items, mt, proof, pe_args, cap_n, hash_args, build, fold>>

\* tree.find_path(index); the caller keeps the proof it is given
FindPath ==
    /\ IsSome(mt)
    /\ \E index \in 0..(Len(items) + 1) :
          LET r == find_path(Unwrap(mt), index)
          IN /\ ret' = [op |-> "find_path", arg |-> index, val |-> r]
             /\ proof' = IF IsSome(r) THEN Some(<<index, Unwrap(r)>>) ELSE proof
    /\ UNCHANGED <<items, mt, pe_args, cap_n, hash_args, build, fold>>

\* proof.verify(candidate) on the proof held
Verify ==
    /\ IsSome(mt)
    /\ IsSome(proof)
    /\ \E candidate \in DigestPool \cup {At(Unwrap(mt).nodes, k) : k \in 0..(Len(Unwrap(mt).nodes) - 1)} :
          ret' = [op |-> "verify", arg |-> candidate,
                  val |-> verify(Unwrap(proof)[2], candidate)]
    /\ UNCHANGED <<items, mt, proof, pe_args, cap_n, hash_args, build, fold>>

\* MerkleTree::merkle_root(items)
MerkleRoot ==
    /\ \E garbage \in GarbageDigests :
          ret' = [op |-> "merkle_root", arg |-> garbage, val |-> merkle_root(items, garbage)]
    /\ UNCHANGED <<items, mt, proof, pe_args, cap_n, hash_args, build, fold>>

Next == New \/ GetRoot \/ FindPath \/ Verify \/ MerkleRoot

Spec == Init /\ [][Next]_vars

(************************* ProofEntry::new on its own **********************)
InitEntry ==
    /\ pe_args \in EntryDigests \X OptDigests \X OptDigests
    /\ items = <<>>
    /\ mt = None
    /\ proof = None
    /\ ret = NoCall
    /\ cap_n = 0
    /\ hash_args = <<>>
    /\ build = Idle
    /\ fold = Idle

\* ProofEntry::new(target, left_sibling, right_sibling)
ProofEntryNew ==
    /\ ret = NoCall
    /\ ret' = [op |-> "ProofEntry::new", arg |-> pe_args,
               val |-> ProofEntry_new(pe_args[1], pe_args[2], pe_args[3])]
    /\ UNCHANGED <<items, mt, proof, pe_args, cap_n, hash_args, build, fold>>

NextEntry == ProofEntryNew

SpecEntry == InitEntry /\ [][NextEntry]_vars

(************************* calculate_vec_capacity on its own ***************)
\* test_nodes_capacity_compute: for leaf_count in 0..65536
MaxCapLeaves == 65536

InitCap ==
    /\ cap_n \in 0..(MaxCapLeaves - 1)
    /\ items = <<>>
    /\ mt = None
    /\ proof = None
    /\ ret = NoCall
    /\ pe_args = <<>>
    /\ hash_args = <<>>
    /\ build = Idle
    /\ fold = Idle

\* one iteration of the test loop: math_count and iter_count for cap_n
CalculateVecCapacity ==
    /\ ret = NoCall
    /\ ret' = [op |-> "calculate_vec_capacity", arg |-> cap_n,
               val |-> <<calculate_vec_capacity(cap_n), iteration_count(cap_n)>>]
    /\ UNCHANGED <<items, mt, proof, pe_args, cap_n, hash_args, build, fold>>

NextCap == CalculateVecCapacity

SpecCap == InitCap /\ [][NextCap]_vars

(************************* properties *************************************)
\* index of the leaf the held proof was asked for, and its entries
ProofIndex == Unwrap(proof)[1]
ProofEntries == Unwrap(proof)[2]
TrueLeaf == hash_leaf(items[ProofIndex + 1])

\* length of the last level of a tree of n >= 1 leaves
RECURSIVE LastLevelLen(_)
LastLevelLen(n) == IF next_level_len(n) = 0 THEN n ELSE LastLevelLen(next_level_len(n))

\* C1: for every non-empty record list merkle_root returns Some(d) with d the
\* root of the tree MerkleTree::new builds from the same list.
C1_FastRootIsTreeRoot ==
    (ret.op = "merkle_root" /\ items # <<>>) => ret.val = get_root(new(items))

\* C2: proof completeness: the proof find_path(i) returns verifies the true
\* leaf digest leaf_hash(records[i]).
C2_ProofCompleteness ==
    (ret.op = "verify" /\ ret.arg = TrueLeaf) => ret.val = TRUE

C2_Witness ==
    /\ ret.op = "verify"
    /\ Len(items) = 3
    /\ ProofIndex = 2
    /\ ret.arg = TrueLeaf
    /\ ret.val = TRUE

\* C3 as stated: for every tree size, the single-leaf tree included, the
\* proof find_path(i) returns rejects every digest other than the true leaf.
C3_SoundnessAllSizes ==
    (ret.op = "verify" /\ ret.arg # TrueLeaf) => ret.val = FALSE

\* C3 amended: for every tree of at least two leaves, the proof find_path(i)
\* returns rejects every digest other than leaf_hash(records[i]).
C3_SoundnessTwoOrMore ==
    (ret.op = "verify" /\ Len(items) >= 2 /\ ret.arg # TrueLeaf) => ret.val = FALSE

C3_Witness ==
    /\ ret.op = "verify"
    /\ Len(items) = 3
    /\ ProofIndex = 2
    /\ ret.arg = hash_leaf(items[1])
    /\ ret.arg # TrueLeaf
    /\ ret.val = FALSE

\* C4: find_path(index) returns None for every index >= n (also when n = 0)
\* and Some(proof) for every index < n.
C4_FindPathRange ==
    ret.op = "find_path" =>
        /\ ret.arg >= Len(items) => ret.val = None
        /\ ret.arg < Len(items) => IsSome(ret.val)

C4_Witness ==
    /\ ret.op = "find_path"
    /\ Len(items) >= 1
    /\ ret.arg = Len(items)
    /\ ret.val = None

\* C5: get_root returns None exactly when n = 0; for n >= 1 it returns the
\* last digest of the node storage, the single node of the top level.
C5_GetRoot ==
    ret.op = "get_root" =>
        LET t == Unwrap(mt)
            n == Len(items)
        IN /\ ret.val = None <=> n = 0
           /\ n >= 1 => /\ ret.val = Some(At(t.nodes, Len(t.nodes) - 1))
                        /\ Len(t.nodes) = iteration_count(n)
                        /\ LastLevelLen(n) = 1

C5_Witness ==
    /\ ret.op = "get_root"
    /\ Len(items) = 3
    /\ ret.val = Some(hash_intermediate(
                        hash_intermediate(hash_leaf(items[1]), hash_leaf(items[2])),
                        hash_intermediate(hash_leaf(items[3]), hash_leaf(items[3]))))

\* C6: the tree of a single record x has root leaf_hash(x) and its storage
\* holds exactly that one digest, no internal node.
C6_SingleRecord ==
    (IsSome(mt) /\ Len(items) = 1) =>
        /\ Unwrap(mt).nodes = <<hash_leaf(items[1])>>
        /\ ret.op = "get_root" => ret.val = Some(hash_leaf(items[1]))

C6_Witness ==
    /\ ret.op = "get_root"
    /\ items = << <<>> >>
    /\ ret.val = Some(hash_leaf(<<>>))

\* C7: for every leaf count below 65536 the computed capacity is at least
\* the true node count, the sum of the level sizes.
C7_CapacitySufficient ==
    ret.op = "calculate_vec_capacity" => ret.val[1] >= ret.val[2]

C7_Witness ==
    /\ ret.op = "calculate_vec_capacity"
    /\ cap_n = 8193
    /\ ret.val = <<16400, 16398>>

\* C8: ProofEntry::new yields an entry exactly when one of the two siblings
\* is present, and aborts with both absent or both present.
C8_ExactlyOneSibling ==
    ret.op = "ProofEntry::new" =>
        LET l == pe_args[2]
            r == pe_args[3]
        IN /\ IsSome(ret.val) <=> (IsSome(l) # IsSome(r))
           /\ ~IsSome(ret.val) => ret.val = Panic
           /\ IsSome(ret.val) => Unwrap(ret.val) = pe_args

C8_Witness ==
    /\ ret.op = "ProofEntry::new"
    /\ ~IsSome(pe_args[2])
    /\ ~IsSome(pe_args[3])
    /\ ret.val = Panic

\* C9: merkle_root returns None exactly when the list is empty and Some
\* digest for every non-empty list.
C9_AbsentOnlyWhenEmpty ==
    ret.op = "merkle_root" =>
        /\ ret.val = None <=> items = <<>>
        /\ items # <<>> => IsSome(ret.val)

\* C10: when the folded digest differs from the root of the built tree,
\* merkle_root aborts; every Some(d) it returns is the root of the tree.
C10_DisagreementIsFatal ==
    (ret.op = "merkle_root" /\ items # <<>>) =>
        LET res == fast_root(items, ret.arg).res
            res2 == get_root(new(items))
        IN /\ Some(res) # res2 => ret.val = Panic
           /\ IsSome(ret.val) => ret.val = res2

C10_Witness ==
    /\ ret.op = "merkle_root"
    /\ Len(items) = 2
    /\ ret.val = Panic

(************************* level geometry *********************************)
\* the level sizes n, next_level_len(n), ... of a tree of n leaves
RECURSIVE LevelLenAt(_, _)
LevelLenAt(n, k) == IF k = 0 THEN n ELSE next_level_len(LevelLenAt(n, k - 1))

\* storage offset of level k when the levels are laid out one after another
RECURSIVE LevelStartAt(_, _)
LevelStartAt(n, k) == IF k = 0 THEN 0 ELSE LevelStartAt(n, k - 1) + LevelLenAt(n, k - 1)

RECURSIVE NumLevels(_)
NumLevels(n) == IF n = 0 THEN 0 ELSE 1 + NumLevels(next_level_len(n))

\* node i of level k of the tree t
Node(t, k, i) == At(t.nodes, LevelStartAt(t.leaf_count, k) + i)

\* the bytes a digest was computed from
Preimage(h) == h[2]

\* number of hash_intermediate applications above the leaves, left spine
RECURSIVE Height(_)
Height(h) == IF Preimage(h)[1] = LEAF_PREFIX[1] THEN 0 ELSE 1 + Height(Preimage(h)[2])

\* C11: the storage length is the sum of the level sizes, level 0 holds the
\* leaves at positions [0, n) in input order, every later level lies right
\* after the previous one, and leaf_count is n.
C11_StorageLayout ==
    IsSome(mt) =>
        LET t == Unwrap(mt)
            n == Len(items)
        IN /\ t.leaf_count = n
           /\ Len(t.nodes) = iteration_count(n)
           /\ \A i \in 0..(n - 1) : At(t.nodes, i) = hash_leaf(items[i + 1])
           /\ \A k \in 0..(NumLevels(n) - 1) :
                 \A i \in 0..(LevelLenAt(n, k) - 1) : Height(Node(t, k, i)) = k

C11_Witness ==
    /\ IsSome(mt)
    /\ Len(items) = 5
    /\ Len(Unwrap(mt).nodes) = 11
    /\ Height(At(Unwrap(mt).nodes, 10)) = 3

\* C13: every node of level k+1 is node_hash of nodes 2i and 2i+1 of level
\* k, the last node of an odd-length level being paired with itself; level
\* 0 holds leaf_hash of each record in input order.
C13_PairingRule ==
    IsSome(mt) =>
        LET t == Unwrap(mt)
            n == Len(items)
        IN /\ Len(t.nodes) = iteration_count(n)
           /\ \A i \in 0..(n - 1) : Node(t, 0, i) = hash_leaf(items[i + 1])
           /\ \A k \in 0..(NumLevels(n) - 2) :
                 LET L == LevelLenAt(n, k)
                 IN \A i \in 0..(LevelLenAt(n, k + 1) - 1) :
                       Node(t, k + 1, i) =
                           IF 2 * i + 1 < L
                           THEN hash_intermediate(Node(t, k, 2 * i), Node(t, k, 2 * i + 1))
                           ELSE hash_intermediate(Node(t, k, 2 * i), Node(t, k, 2 * i))

C13_Witness ==
    /\ IsSome(mt)
    /\ Len(items) = 3
    /\ items[1] # items[2]
    /\ Node(Unwrap(mt), 1, 0) = hash_intermediate(hash_leaf(items[1]), hash_leaf(items[2]))
    /\ Node(Unwrap(mt), 1, 1) = hash_intermediate(hash_leaf(items[3]), hash_leaf(items[3]))

(************************* the two hash framings on their own *************)
\* records to hash: the short byte strings, and the 64-byte records that
\* spell out two digests (what a second-preimage attempt would submit)
HashRecords == Records \cup {AsRef(a) \o AsRef(b) : a, b \in DigestPool}

InitHash ==
    /\ hash_args \in HashRecords \X DigestPool \X DigestPool
    /\ items = <<>>
    /\ mt = None
    /\ proof = None
    /\ ret = NoCall
    /\ pe_args = <<>>
    /\ cap_n = 0
    /\ build = Idle
    /\ fold = Idle

\* hash_leaf!(record)
HashLeaf ==
    /\ ret = NoCall
    /\ ret' = [op |-> "hash_leaf", arg |-> hash_args[1], val |-> hash_leaf(hash_args[1])]
    /\ UNCHANGED <<items, mt, proof, pe_args, cap_n, hash_args, build, fold>>

\* hash_intermediate!(l, r)
HashIntermediate ==
    /\ ret = NoCall
    /\ ret' = [op |-> "hash_intermediate", arg |-> <<hash_args[2], hash_args[3]>>,
               val |-> hash_intermediate(hash_args[2], hash_args[3])]
    /\ UNCHANGED <<items, mt, proof, pe_args, cap_n, hash_args, build, fold>>

NextHash == HashLeaf \/ HashIntermediate

SpecHash == InitHash /\ [][NextHash]_vars

\* C12: domain separation: the bytes hash_leaf feeds to the hash differ from
\* the bytes hash_intermediate feeds for any record and any two digests, so
\* no leaf digest equals an internal-node digest.
C12_DomainSeparation ==
    /\ ret.op = "hash_leaf" =>
          /\ Preimage(ret.val) # Preimage(hash_intermediate(hash_args[2], hash_args[3]))
          /\ ret.val # hash_intermediate(hash_args[2], hash_args[3])
    /\ ret.op = "hash_intermediate" =>
          /\ Preimage(ret.val) # Preimage(hash_leaf(hash_args[1]))
          /\ ret.val # hash_leaf(hash_args[1])

C12_Witness ==
    /\ ret.op = "hash_leaf"
    /\ hash_args[1] = AsRef(hash_args[2]) \o AsRef(hash_args[3])
    /\ Preimage(ret.val) = LEAF_PREFIX \o AsRef(hash_args[2]) \o AsRef(hash_args[3])

(************************* Proof::verify on arbitrary proofs **************)
\* longest hand-made proof
MaxProofLen == 2

\* digests for hand-made proofs: two base digests, their four parents, and
\* two parents one level further up
VBase == {hash_leaf(<<>>), HashDefault}
VLevel1 == {hash_intermediate(a, b) : a, b \in VBase}
VLevel2 ==
    LET p == hash_intermediate(hash_leaf(<<>>), HashDefault)
    IN {hash_intermediate(p, hash_leaf(<<>>)), hash_intermediate(hash_leaf(<<>>), p)}
VOptions == {None} \cup {Some(x) : x \in VBase}

\* Proof::default(): a caller puts a proof together by hand
InitVerify ==
    /\ proof = Some(<<0, <<>>>>)
    /\ items = <<>>
    /\ mt = None
    /\ ret = NoCall
    /\ pe_args = <<>>
    /\ cap_n = 0
    /\ hash_args = <<>>
    /\ build = Idle
    /\ fold = Idle

\* proof.push(ProofEntry::new(target, left, right)), when new lets it through
Push ==
    /\ ret = NoCall
    /\ Len(Unwrap(proof)[2]) < MaxProofLen
    /\ \E t \in VLevel1 \cup VLevel2, l \in VOptions, r \in VOptions :
          /\ IsSome(ProofEntry_new(t, l, r))
          /\ proof' = Some(<<0, Append(Unwrap(proof)[2], Unwrap(ProofEntry_new(t, l, r)))>>)
    /\ UNCHANGED <<items, mt, ret, pe_args, cap_n, hash_args, build, fold>>

\* proof.verify(candidate) on the proof put together
VerifyAny ==
    /\ ret = NoCall
    /\ \E candidate \in VBase \cup VLevel1 :
          ret' = [op |-> "verify", arg |-> candidate,
                  val |-> verify(Unwrap(proof)[2], candidate)]
    /\ UNCHANGED <<items, mt, proof, pe_args, cap_n, hash_args, build, fold>>

NextVerify == Push \/ VerifyAny

SpecVerify == InitVerify /\ [][NextVerify]_vars

\* the digest entering step k when every earlier step matched
RunningAt(entries, k, candidate) == IF k = 1 THEN candidate ELSE entries[k - 1][1]

\* node_hash with the disclosed sibling on its side
StepHash(pe, running) ==
    IF IsSome(pe[2]) THEN hash_intermediate(Unwrap(pe[2]), running)
    ELSE hash_intermediate(running, Unwrap(pe[3]))

\* C14: for any proof and candidate, verify returns true exactly when at
\* every entry node_hash(left, running) resp. node_hash(running, right)
\* equals the recorded target, the running digest of a step being the
\* matched hash of the step before; the first mismatch makes it false.
C14_VerifyFolds ==
    ret.op = "verify" =>
        LET e == ProofEntries
        IN ret.val = TRUE <=>
               \A k \in 1..Len(e) : StepHash(e[k], RunningAt(e, k, ret.arg)) = e[k][1]

C14_Witness ==
    /\ ret.op = "verify"
    /\ Len(ProofEntries) = 2
    /\ IsSome(ProofEntries[1][2])
    /\ IsSome(ProofEntries[2][3])
    /\ ret.val = TRUE

\* a proof whose first entry matches and whose second does not
C14_WitnessMismatch ==
    /\ ret.op = "verify"
    /\ Len(ProofEntries) = 2
    /\ StepHash(ProofEntries[1], ret.arg) = ProofEntries[1][1]
    /\ ret.val = FALSE

(************************* MerkleTree::new, one loop iteration at a time **)
InitBuild ==
    /\ items \in ItemLists
    /\ mt = None
    /\ proof = None
    /\ ret = NoCall
    /\ pe_args = <<>>
    /\ cap_n = 0
    /\ hash_args = <<>>
    /\ build = Idle
    /\ fold = Idle

\* lines 99-114: the leaves are pushed and the loop variables initialised
BuildStart ==
    /\ build.pc = "idle"
    /\ build' = [pc |-> "loop",
                 nodes |-> [j \in 1..Len(items) |-> hash_leaf(items[j])],
                 level_len |-> next_level_len(Len(items)),
                 level_start |-> Len(items),
                 prev_level_len |-> Len(items),
                 prev_level_start |-> 0,
                 iters |-> 0]
    /\ UNCHANGED <<items, mt, proof, ret, pe_args, cap_n, hash_args, fold>>

\* lines 115-133: one iteration of the while loop
BuildLevel ==
    /\ build.pc = "loop"
    /\ build.level_len > 0
    /\ build' = [pc |-> "loop",
                 nodes |-> build.nodes \o LevelNodes(build.nodes, build.level_len,
                                                     build.prev_level_len, build.prev_level_start),
                 level_len |-> next_level_len(build.level_len),
                 level_start |-> build.level_start + build.level_len,
                 prev_level_len |-> build.level_len,
                 prev_level_start |-> build.level_start,
                 iters |-> build.iters + 1]
    /\ UNCHANGED <<items, mt, proof, ret, pe_args, cap_n, hash_args, fold>>

\* line 135: the loop condition fails and the tree is returned
BuildReturn ==
    /\ build.pc = "loop"
    /\ build.level_len = 0
    /\ build' = [build EXCEPT !.pc = "done"]
    /\ mt' = Some([leaf_count |-> Len(items),
                   cap |-> calculate_vec_capacity(Len(items)),
                   nodes |-> build.nodes])
    /\ ret' = [op |-> "new", arg |-> <<>>, val |-> None]
    /\ UNCHANGED <<items, proof, pe_args, cap_n, hash_args, fold>>

NextBuild == BuildStart \/ BuildLevel \/ BuildReturn

\* a sequential program takes its next step whenever it has one
SpecBuild == InitBuild /\ [][NextBuild]_vars /\ WF_vars(NextBuild)

\* the stepwise construction returns the tree the operator new computes
BuildRefinesNew == build.pc = "done" => mt = Some(new(items))

\* C15: construction terminates for every leaf count; for n >= 1 the loop
\* ends exactly when the last level produced has length 1, the level lengths
\* strictly decreasing on the way, and for n = 0 the body is never entered.
C15_BuildTerminates ==
    /\ <>(build.pc = "done")
    /\ [](build.pc = "done" =>
             /\ Len(items) >= 1 => build.prev_level_len = 1
             /\ Len(items) = 0 => build.iters = 0)
    /\ [][(build.pc = "loop" /\ build'.pc = "loop")
             => build'.prev_level_len < build.prev_level_len]_vars

C15_Witness ==
    /\ build.pc = "done"
    /\ Len(items) = 5
    /\ build.iters = 3
    /\ build.prev_level_len = 1

(************************* shape of the proofs find_path returns **********)
\* C16: find_path(i) returns one entry per non-root level, root-ward: entry
\* k has as target the path node of level k and discloses the sibling of the
\* path node of level k-1 at position floor(i / 2^(k-1)): the right
\* neighbour (the node itself on an odd tail) if the position is even, the
\* left neighbour if it is odd; a single-leaf tree yields no entry.
C16_PathShape ==
    (ret.op = "find_path" /\ IsSome(ret.val)) =>
        LET t == Unwrap(mt)
            n == Len(items)
            i == ret.arg
            p == Unwrap(ret.val)
        IN /\ Len(p) = NumLevels(n) - 1
           /\ n = 1 => p = <<>>
           /\ \A k \in 1..Len(p) :
                 LET pos == i \div Pow2(k - 1)
                 IN /\ p[k][1] = Node(t, k, pos \div 2)
                    /\ IF pos % 2 = 0
                       THEN /\ p[k][2] = None
                            /\ p[k][3] = Some(IF pos + 1 < LevelLenAt(n, k - 1)
                                              THEN Node(t, k - 1, pos + 1)
                                              ELSE Node(t, k - 1, pos))
                       ELSE /\ p[k][2] = Some(Node(t, k - 1, pos - 1))
                            /\ p[k][3] = None

C16_Witness ==
    /\ ret.op = "find_path"
    /\ Len(items) = 5
    /\ ret.arg = 4
    /\ IsSome(ret.val)
    /\ Len(Unwrap(ret.val)) = 3
    /\ Unwrap(ret.val)[1][3] = Some(hash_leaf(items[5]))
    /\ IsSome(Unwrap(ret.val)[3][2])

\* C19: for n >= 2 the target of the last entry of find_path(i) is the root
\* get_root returns, so a candidate that verifies folds to the tree's root.
C19_LastTargetIsRoot ==
    /\ (ret.op = "find_path" /\ IsSome(ret.val) /\ Len(items) >= 2) =>
          LET p == Unwrap(ret.val)
          IN /\ Len(p) >= 1
             /\ Some(p[Len(p)][1]) = get_root(Unwrap(mt))
    /\ (ret.op = "verify" /\ Len(items) >= 2 /\ ret.val = TRUE) =>
          VerifyFold(ProofEntries, 1, ret.arg) = get_root(Unwrap(mt))

C19_Witness ==
    /\ ret.op = "verify"
    /\ Len(items) = 3
    /\ ProofIndex = 1
    /\ ret.val = TRUE
    /\ Some(ProofEntries[2][1]) = get_root(Unwrap(mt))

\* C20: find_path never aborts on a valid index: at every level the node
\* index is below the level length, the level slice lies inside the storage,
\* and every entry passes ProofEntry::new with exactly one sibling.
C20_FindPathNeverAborts ==
    (ret.op = "find_path" /\ ret.arg < Len(items)) =>
        LET t == Unwrap(mt)
            n == Len(items)
        IN /\ ret.val # Panic
           /\ \A k \in 0..(NumLevels(n) - 1) :
                 /\ ret.arg \div Pow2(k) < LevelLenAt(n, k)
                 /\ LevelStartAt(n, k) + LevelLenAt(n, k) <= Len(t.nodes)
           /\ \A k \in 1..Len(Unwrap(ret.val)) :
                 LET e == Unwrap(ret.val)[k]
                 IN IsSome(e[2]) # IsSome(e[3])

C20_Witness ==
    /\ ret.op = "find_path"
    /\ Len(items) = 4
    /\ ret.arg = 3
    /\ IsSome(ret.val)
    /\ Len(Unwrap(ret.val)) = 2

(************************* merkle_root, one leaf at a time ****************)
InitFold ==
    /\ items \in ItemLists
    /\ mt = None
    /\ proof = None
    /\ ret = NoCall
    /\ pe_args = <<>>
    /\ cap_n = 0
    /\ hash_args = <<>>
    /\ build = Idle
    /\ fold = Idle

\* lines 198-213: None for the empty list, else the 63-slot buffer is set up
\* without being initialised
FoldStart ==
    /\ fold.pc = "idle"
    /\ \E garbage \in GarbageDigests :
          IF items = <<>>
          THEN /\ fold' = [pc |-> "done", nodes |-> UninitNodes, leaf_count |-> 0,
                           ub |-> FALSE, garbage |-> garbage, res |-> None]
               /\ ret' = [op |-> "merkle_root", arg |-> garbage, val |-> None]
          ELSE /\ fold' = [pc |-> "append", nodes |-> UninitNodes, leaf_count |-> 0,
                           ub |-> FALSE, garbage |-> garbage, res |-> None]
               /\ ret' = ret
    /\ UNCHANGED <<items, mt, proof, pe_args, cap_n, hash_args, build>>

\* lines 143-157: append_nodes folds the next leaf digest
FoldLeaf ==
    /\ fold.pc = "append"
    /\ fold.leaf_count < Len(items)
    /\ LET a == append_nodes([nodes |-> fold.nodes, ub |-> fold.ub], fold.leaf_count,
                             <<hash_leaf(items[fold.leaf_count + 1])>>, fold.garbage)
       IN fold' = [fold EXCEPT !.nodes = a.nodes, !.ub = a.ub, !.leaf_count = a.leaf_count]
    /\ UNCHANGED <<items, mt, proof, ret, pe_args, cap_n, hash_args, build>>

\* lines 216-229: commit_finish, then the cross-check against the built tree
FoldFinish ==
    /\ fold.pc = "append"
    /\ fold.leaf_count = Len(items)
    /\ LET c == commit_finish([nodes |-> fold.nodes, ub |-> fold.ub], fold.leaf_count,
                              fold.garbage)
           res2 == Unwrap(get_root(new(items)))
       IN /\ fold' = [fold EXCEPT !.pc = "done", !.ub = c.ub, !.res = Some(c.res)]
          /\ ret' = [op |-> "merkle_root", arg |-> fold.garbage,
                     val |-> IF c.res # res2 THEN Panic ELSE Some(c.res)]
    /\ UNCHANGED <<items, mt, proof, pe_args, cap_n, hash_args, build>>

NextFold == FoldStart \/ FoldLeaf \/ FoldFinish

SpecFold == InitFold /\ [][NextFold]_vars

\* the stepwise run returns what the operator merkle_root computes
FoldRefinesMerkleRoot ==
    fold.pc = "done" => ret.val = merkle_root(items, fold.garbage)

\* bit j of k
BitSet(k, j) == (k \div Pow2(j)) % 2 = 1

\* the root MerkleTree::new computes for the 2^j leaves that end at the last
\* leaf covered by the bits >= j of k
BlockRoot(k, j) ==
    LET last == (k \div Pow2(j)) * Pow2(j)
    IN Unwrap(get_root(new(SubSeq(items, last - Pow2(j) + 1, last))))

\* C17: after the first k >= 1 leaves are folded, every slot nodes[j] with
\* bit j set in k holds the root the tree builder computes for the aligned
\* block of 2^j leaves it covers (earlier leaf left, later leaf right).
C17_SlotIsBlockRoot ==
    (fold.pc = "append" /\ fold.leaf_count >= 1) =>
        \A j \in 0..FloorLog2(fold.leaf_count) :
            BitSet(fold.leaf_count, j) => fold.nodes[j] = BlockRoot(fold.leaf_count, j)

\* C18: for every non-empty input no read of nodes[layer] in append_nodes or
\* commit_finish hits a slot that was not written before in the same call;
\* after k leaves every slot of a set bit of k has been written.
C18_NoUninitRead ==
    /\ fold.pc \in {"append", "done"} => ~fold.ub
    /\ (fold.pc = "append" /\ fold.leaf_count >= 1) =>
          \A j \in 0..FloorLog2(fold.leaf_count) :
              BitSet(fold.leaf_count, j) => fold.nodes[j] # Uninit
    /\ (fold.pc = "done" /\ items # <<>>) =>
          \A g \in GarbageDigests : Some(fast_root(items, g).res) = fold.res

C18_Witness ==
    /\ fold.pc = "done"
    /\ Len(items) = 5
    /\ ~fold.ub
    /\ fold.nodes[0] # Uninit
    /\ fold.nodes[2] # Uninit
    /\ fold.nodes[3] = Uninit

====
